---- MODULE Spec2Model ----
(***************************************************************************)
(* A model of the OTU-table core of qiime/parse.py: parse_otus,            *)
(* filter_otus_by_lineage and make_envs_dict.                              *)
(*                                                                         *)
(* Python strings are sequences of symbols.  A symbol is a delimiter       *)
(* ("\t", "\n", " ", ";", "&") or a run of other characters kept whole     *)
(* ("Bacteria", "#OTU ID"), so that split, strip and "in" are computed     *)
(* symbol by symbol as the interpreter computes them.  numpy arrays live   *)
(* in a heap and are named by reference, so that a view, a copy and an     *)
(* in-place write are different things.  Indices are 1-based.              *)
(***************************************************************************)
EXTENDS Integers, Sequences, FiniteSets, TLC

VARIABLES
    heap,      \* the numpy arrays allocated so far, by reference
    args,      \* the arguments the caller passed to the running function
    frame,     \* the local variables of the running function, and its position
    result,    \* what the function returned or raised
    orig,      \* the caller's table as it was when the call was made
    first,     \* what the first of two successive filter calls was given and returned
    pass       \* "first" or "second" call of filter_otus_by_lineage

vars == <<heap, args, frame, result, orig, first, pass>>

\* ------------------------------------------------------------------ bounds

MaxOtus == 2        \* OTU rows of a table, data rows of a file
MaxCount == 1       \* largest count in one cell of an input table

\* ----------------------------------------------------------------- strings

Str(a) == <<a>>

IsSpace(c) == c \in {" ", "\t", "\n"}

RECURSIVE LStrip(_)
LStrip(s) == IF s # <<>> /\ IsSpace(Head(s)) THEN LStrip(Tail(s)) ELSE s

RECURSIVE RStrip(_)
RStrip(s) ==
    IF s # <<>> /\ IsSpace(s[Len(s)]) THEN RStrip(SubSeq(s, 1, Len(s) - 1)) ELSE s

\* str.strip()
Strip(s) == RStrip(LStrip(s))

StartsWith(s, sep) == Len(s) >= Len(sep) /\ SubSeq(s, 1, Len(sep)) = sep

\* sep in s
Contains(s, sep) ==
    \E i \in 1..Len(s) : StartsWith(SubSeq(s, i, Len(s)), sep)

RECURSIVE SplitFrom(_, _, _)
SplitFrom(s, sep, cur) ==
    IF s = <<>> THEN <<cur>>
    ELSE IF StartsWith(s, sep)
         THEN <<cur>> \o SplitFrom(SubSeq(s, Len(sep) + 1, Len(s)), sep, <<>>)
         ELSE SplitFrom(Tail(s), sep, Append(cur, Head(s)))

\* str.split(sep): the pieces between successive occurrences of sep, left to right
Split(s, sep) == SplitFrom(s, sep, <<>>)

\* ------------------------------------------------------------------- lists

Range(s) == {s[i] : i \in 1..Len(s)}

\* sum(xs)
RECURSIVE SeqSum(_)
SeqSum(s) == IF s = <<>> THEN 0 ELSE Head(s) + SeqSum(Tail(s))

\* map(xs.__getitem__, indices)
GetItems(xs, indices) == [k \in 1..Len(indices) |-> xs[indices[k]]]

\* mask.nonzero()[0]: the indices at which a boolean vector is true, ascending
RECURSIVE NonzeroFrom(_, _)
NonzeroFrom(mask, i) ==
    IF i > Len(mask) THEN <<>>
    ELSE (IF mask[i] THEN <<i>> ELSE <<>>) \o NonzeroFrom(mask, i + 1)

Nonzero(mask) == NonzeroFrom(mask, 1)

\* ------------------------------------------------------------------ arrays

\* a 2-d numpy array: its shape and its rows
Array(r, c, rows) == [shape |-> <<r, c>>, data |-> rows]

NRows(a) == a.shape[1]
NCols(a) == a.shape[2]

\* a[:, j]
Column(a, j) == [i \in 1..NRows(a) |-> a.data[i][j]]

\* a.sum(0): one sum per column, zeros for an array without rows
ColSums(a) == [j \in 1..NCols(a) |-> SeqSum(Column(a, j))]

\* a[indices]: a new array of the rows named, in the order named
TakeRows(a, indices) ==
    Array(Len(indices), NCols(a), [k \in 1..Len(indices) |-> a.data[indices[k]]])

\* a[:, indices]: a new array of the columns named, in the order named
TakeCols(a, indices) ==
    Array(NRows(a), Len(indices),
          [i \in 1..NRows(a) |-> [k \in 1..Len(indices) |-> a.data[i][indices[k]]]])

\* a[:, j] = v, in place
SetCol(a, j, v) ==
    [a EXCEPT !.data = [i \in 1..NRows(a) |-> [a.data[i] EXCEPT ![j] = v[i]]]]

\* ------------------------------------------------- filter_otus_by_lineage

\* the values a Python variable holding None or a string takes
None == [none |-> TRUE]
Some(s) == [none |-> FALSE, val |-> s]

AndAnd == <<"&", "&">>

\* the set of wanted lineage terms
WantedSet(wanted_lineage) ==
    IF Contains(wanted_lineage, AndAnd)
    THEN Range(Split(wanted_lineage, AndAnd))
    ELSE {wanted_lineage}

\* a plausible slip: a row must carry every wanted term
GoodIndicesAllTerms(lineages, wanted) ==
    Nonzero([i \in 1..Len(lineages) |-> wanted \subseteq Range(lineages[i])])

\* the rows whose lineage shares a term with the wanted set
GoodIndices(lineages, wanted) ==
    Nonzero([i \in 1..Len(lineages) |-> Range(lineages[i]) \cap wanted # {}])

\* a plausible slip: the lineages are cut to length instead of selected
KeptLineagesPrefix(lineages, good_indices) ==
    SubSeq(lineages, 1, Len(good_indices))

KeptLineages(lineages, good_indices) == GetItems(lineages, good_indices)

KeptOtuIds(otu_ids, good_indices) == GetItems(otu_ids, good_indices)

\* otu_table[good_indices] allocates a new array
IndexRows(h, ref, indices) ==
    [heap |-> Append(h, TakeRows(h[ref], indices)), ref |-> Len(h) + 1]

\* a plausible slip: strictly more than the minimum is asked for
BigEnoughSamplesStrict(a, min_seqs_per_sample) ==
    Nonzero([j \in 1..NCols(a) |-> ColSums(a)[j] > min_seqs_per_sample])

\* the columns whose sum reaches the minimum
BigEnoughSamples(a, min_seqs_per_sample) ==
    Nonzero([j \in 1..NCols(a) |-> ColSums(a)[j] >= min_seqs_per_sample])

\* a plausible slip: the sample ids are left as they were
KeptSampleIdsAll(sample_ids, big_enough_samples) == sample_ids

KeptSampleIds(sample_ids, big_enough_samples) ==
    GetItems(sample_ids, big_enough_samples)

\* a plausible slip: selecting every column hands back the array itself,
\* as the slice otu_table[:, :] would
IndexColumnsView(h, ref, indices) ==
    IF indices = [j \in 1..NCols(h[ref]) |-> j]
    THEN [heap |-> h, ref |-> ref]
    ELSE [heap |-> Append(h, TakeCols(h[ref], indices)), ref |-> Len(h) + 1]

\* otu_table[:, big_enough_samples[0]] allocates a new array
IndexColumns(h, ref, indices) ==
    [heap |-> Append(h, TakeCols(h[ref], indices)), ref |-> Len(h) + 1]

\* a plausible slip: the last column is never looked at
TooBigSamplesButLast(a, max_seqs_per_sample) ==
    Nonzero([j \in 1..NCols(a) |->
                j < NCols(a) /\ ColSums(a)[j] > max_seqs_per_sample])

\* the columns whose sum exceeds the maximum
TooBigSamples(a, max_seqs_per_sample) ==
    Nonzero([j \in 1..NCols(a) |-> ColSums(a)[j] > max_seqs_per_sample])

SeqMax(s) == IF s = <<>> THEN 0 ELSE CHOOSE m \in Range(s) : \A x \in Range(s) : x <= m

\* the rarefaction draw: every vector of n observations taken, without
\* replacement, from the observations counts stands for
Subsample(counts, n) ==
    {r \in [1..Len(counts) -> 0..SeqMax(counts)] :
        /\ \A i \in 1..Len(counts) : r[i] <= counts[i]
        /\ SeqSum(r) = n}

\* the locals of a call that has just begun
Enter(a) ==
    [fn |-> "filter_otus_by_lineage", pc |-> "lineage",
     sample_ids |-> a.sample_ids, otu_ids |-> a.otu_ids,
     otu_table |-> a.otu_table, lineages |-> a.lineages,
     wanted_lineage |-> a.wanted_lineage,
     max_seqs_per_sample |-> a.max_seqs_per_sample,
     min_seqs_per_sample |-> a.min_seqs_per_sample,
     too_big_samples |-> <<>>]

\* a table by value: what the caller sees through its references
Table(h, t) ==
    [sample_ids |-> t.sample_ids, otu_ids |-> t.otu_ids,
     counts |-> h[t.otu_table], lineages |-> t.lineages]

NoResult == [kind |-> "none"]

InFilter(pc) == frame.fn = "filter_otus_by_lineage" /\ frame.pc = pc

\* first step: which OTUs to keep
SelectLineage ==
    /\ InFilter("lineage")
    /\ IF frame.wanted_lineage.none
       THEN /\ frame' = [frame EXCEPT !.pc = "min_depth"]
            /\ heap' = heap
       ELSE LET wanted == WantedSet(frame.wanted_lineage.val)
                good_indices == GoodIndices(frame.lineages, wanted)
                new == IndexRows(heap, frame.otu_table, good_indices)
            IN  /\ heap' = new.heap
                /\ frame' = [frame EXCEPT
                       !.pc = "min_depth",
                       !.otu_table = new.ref,
                       !.otu_ids = KeptOtuIds(frame.otu_ids, good_indices),
                       !.lineages = KeptLineages(frame.lineages, good_indices)]
    /\ UNCHANGED <<args, result, orig, first, pass>>

\* which samples are dropped because too small
DropSmallSamples ==
    /\ InFilter("min_depth")
    /\ LET big_enough_samples ==
               BigEnoughSamples(heap[frame.otu_table], frame.min_seqs_per_sample)
           new == IndexColumns(heap, frame.otu_table, big_enough_samples)
       IN  /\ heap' = new.heap
           /\ frame' = [frame EXCEPT
                  !.pc = "max_depth",
                  !.otu_table = new.ref,
                  !.sample_ids = KeptSampleIds(frame.sample_ids, big_enough_samples)]
    /\ UNCHANGED <<args, result, orig, first, pass>>

\* which samples are reduced because too big
FindTooBigSamples ==
    /\ InFilter("max_depth")
    /\ frame' = [frame EXCEPT
           !.pc = "subsample",
           !.too_big_samples =
               TooBigSamples(heap[frame.otu_table], frame.max_seqs_per_sample)]
    /\ UNCHANGED <<heap, args, result, orig, first, pass>>

\* one turn of the loop over the too big samples
SubsampleColumn ==
    /\ InFilter("subsample")
    /\ frame.too_big_samples # <<>>
    /\ LET i == Head(frame.too_big_samples)
           a == heap[frame.otu_table]
       IN  \E drawn \in Subsample(Column(a, i), frame.max_seqs_per_sample) :
               heap' = [heap EXCEPT ![frame.otu_table] = SetCol(a, i, drawn)]
    /\ frame' = [frame EXCEPT !.too_big_samples = Tail(frame.too_big_samples)]
    /\ UNCHANGED <<args, result, orig, first, pass>>

ReturnFiltered ==
    /\ InFilter("subsample")
    /\ frame.too_big_samples = <<>>
    /\ result' = [kind |-> "returned",
                  sample_ids |-> frame.sample_ids, otu_ids |-> frame.otu_ids,
                  otu_table |-> frame.otu_table, lineages |-> frame.lineages]
    /\ frame' = [frame EXCEPT !.pc = "done"]
    /\ UNCHANGED <<heap, args, orig, first, pass>>

\* the caller filters the table it got back, with the same policy
Refilter ==
    /\ InFilter("done")
    /\ pass = "first"
    /\ LET again == [args EXCEPT
                        !.sample_ids = result.sample_ids,
                        !.otu_ids = result.otu_ids,
                        !.otu_table = result.otu_table,
                        !.lineages = result.lineages]
       IN  /\ args' = again
           /\ frame' = Enter(again)
           /\ orig' = Table(heap, again)
    /\ first' = [kind |-> "returned", given |-> orig, table |-> Table(heap, result)]
    /\ pass' = "second"
    /\ result' = NoResult
    /\ UNCHANGED heap

\* the tables and policies filter_otus_by_lineage is called with
SampleNames == <<Str("A"), Str("B")>>

OtuId(i) == Str(ToString(i - 1))

Root == Str("Root")
Bacteria == Str("Bacteria")
Archaea == Str("Archaea")

LineageChoices == {<<Root, Bacteria>>, <<Root, Archaea>>}

WantedChoices ==
    {None,
     Some(Bacteria),
     Some(Bacteria \o AndAnd \o Archaea)}

MinSeqsChoices == {0, 1, 2}
MaxSeqsChoices == {1, 3}

InitFilter ==
    \E o \in 0..MaxOtus, s \in 0..Len(SampleNames) :
    \E rows \in [1..o -> [1..s -> 0..MaxCount]] :
    \E lins \in [1..o -> LineageChoices] \cup {<<>>} :
    \E w \in WantedChoices, mn \in MinSeqsChoices, mx \in MaxSeqsChoices :
        /\ heap = <<Array(o, s, rows)>>
        /\ args = [sample_ids |-> SubSeq(SampleNames, 1, s),
                   otu_ids |-> [i \in 1..o |-> OtuId(i)],
                   otu_table |-> 1,
                   lineages |-> lins,
                   wanted_lineage |-> w,
                   max_seqs_per_sample |-> mx,
                   min_seqs_per_sample |-> mn]
        /\ frame = Enter(args)
        /\ result = NoResult
        /\ orig = Table(heap, args)
        /\ first = NoResult
        /\ pass = "first"

NextFilter ==
    \/ SelectLineage
    \/ DropSmallSamples
    \/ FindTooBigSamples
    \/ SubsampleColumn
    \/ ReturnFiltered

\* one call of filter_otus_by_lineage
SpecFilter == InitFilter /\ [][NextFilter]_vars

NextRefilter ==
    \/ NextFilter
    \/ Refilter

\* a call of filter_otus_by_lineage and a second one on what it returned
SpecRefilter == InitFilter /\ [][NextRefilter]_vars

\* ------------------------------------------- properties of the filtering

\* xs restricted to the positions in S, in the order of xs
RECURSIVE RestrictFrom(_, _, _)
RestrictFrom(xs, S, i) ==
    IF i > Len(xs) THEN <<>>
    ELSE (IF i \in S THEN <<xs[i]>> ELSE <<>>) \o RestrictFrom(xs, S, i + 1)

Restrict(xs, S) == RestrictFrom(xs, S, 1)

\* the rows of table t that the wanted lineage w asks for
ExpectedRows(t, w) ==
    IF w.none THEN 1..Len(t.otu_ids)
    ELSE {i \in 1..Len(t.otu_ids) :
             /\ i <= Len(t.lineages)
             /\ \E term \in WantedSet(w.val) : term \in Range(t.lineages[i])}

\* the sum of column j of t over the rows in rows
ColSumOver(t, rows, j) ==
    SeqSum([i \in 1..Len(t.otu_ids) |-> IF i \in rows THEN t.counts.data[i][j] ELSE 0])

\* the sum of column j of t over the rows the wanted lineage w asks for
ExpectedColSum(t, w, j) == ColSumOver(t, ExpectedRows(t, w), j)

\* the samples of t deep enough under policy a
ExpectedSamples(t, a) ==
    LET rows == ExpectedRows(t, a.wanted_lineage)
    IN  {j \in 1..Len(t.sample_ids) :
            ColSumOver(t, rows, j) >= a.min_seqs_per_sample}

\* the rows of counts that stages 1 and 2 are to leave of t under policy a
ExpectedCounts(t, a) ==
    LET kept == Restrict(t.counts.data, ExpectedRows(t, a.wanted_lineage))
        cols == ExpectedSamples(t, a)
    IN  [k \in 1..Len(kept) |-> Restrict(kept[k], cols)]

AfterStage1 == frame.fn = "filter_otus_by_lineage" /\ frame.pc # "lineage"
AfterStage2 == AfterStage1 /\ frame.pc # "min_depth"
Done == frame.fn = "filter_otus_by_lineage" /\ frame.pc = "done"

\* C1: at every point of filter_otus_by_lineage, and in what it returns, the
\* table has as many sample ids as the matrix has columns and as many OTU
\* ids as it has rows, as many lineages too when the input carried lineages,
\* and every row of the matrix is as long as the shape says.
ShapeInvariant ==
    frame.fn = "filter_otus_by_lineage" =>
        LET a == heap[frame.otu_table]
        IN  /\ Len(frame.sample_ids) = NCols(a)
            /\ Len(frame.otu_ids) = NRows(a)
            /\ orig.lineages # <<>> => Len(frame.lineages) = NRows(a)
            /\ Len(a.data) = NRows(a)
            /\ \A i \in 1..Len(a.data) : Len(a.data[i]) = NCols(a)

\* a call that dropped a row and a sample and returned a table that is not empty
ShapeWitness ==
    /\ Done
    /\ orig.lineages # <<>>
    /\ 0 < Len(result.otu_ids) /\ Len(result.otu_ids) < Len(orig.otu_ids)
    /\ 0 < Len(result.sample_ids) /\ Len(result.sample_ids) < Len(orig.sample_ids)

\* C2: throughout a call of filter_otus_by_lineage and after it, the
\* caller's matrix, sample ids, OTU ids and lineages are what they were
\* when the call was made.
InputNotMutated ==
    frame.fn = "filter_otus_by_lineage" => Table(heap, args) = orig

\* a call without row selection that has subsampled a column
InputNotMutatedWitness ==
    /\ Done
    /\ args.wanted_lineage.none
    /\ \E j \in 1..Len(orig.sample_ids) :
          /\ ExpectedColSum(orig, None, j) > args.max_seqs_per_sample
          /\ ExpectedColSum(orig, None, j) >= args.min_seqs_per_sample

\* C3: once stage 2 has run, the sample ids are those of the samples whose
\* column sum over the wanted rows is at least min_seqs_per_sample, in their
\* original order, and right after stage 2 the matrix holds those same
\* columns of the wanted rows.
MinDepthExclusion ==
    AfterStage2 =>
        /\ frame.sample_ids = Restrict(orig.sample_ids, ExpectedSamples(orig, args))
        /\ frame.pc = "max_depth" =>
               heap[frame.otu_table].data = ExpectedCounts(orig, args)

\* a returned table from a call that saw one sample one short of the
\* minimum and another exactly at it
MinDepthWitness ==
    /\ Done
    /\ \E j, k \in 1..Len(orig.sample_ids) :
          /\ ExpectedColSum(orig, args.wanted_lineage, j)
                 = args.min_seqs_per_sample - 1
          /\ ExpectedColSum(orig, args.wanted_lineage, k)
                 = args.min_seqs_per_sample
          /\ orig.sample_ids[j] \notin Range(result.sample_ids)
          /\ orig.sample_ids[k] \in Range(result.sample_ids)

\* C4: in the returned matrix a column whose sum after stage 2 exceeded
\* max_seqs_per_sample sums to max_seqs_per_sample with no entry above the
\* entry it replaces, and every other column is as stage 2 left it.
SubsampleBound ==
    Done =>
        LET before == ExpectedCounts(orig, args)
            after == heap[result.otu_table].data
        IN  \A k \in 1..Len(result.sample_ids) :
                LET was == [i \in 1..Len(before) |-> before[i][k]]
                    now == [i \in 1..Len(after) |-> after[i][k]]
                IN  IF SeqSum(was) > args.max_seqs_per_sample
                    THEN /\ SeqSum(now) = args.max_seqs_per_sample
                         /\ \A i \in 1..Len(was) : now[i] <= was[i]
                    ELSE now = was

\* a returned table with one column cut down and another, not empty, left alone
SubsampleWitness ==
    /\ Done
    /\ LET before == ExpectedCounts(orig, args)
       IN  \E k1, k2 \in 1..Len(result.sample_ids) :
               /\ SeqSum([i \in 1..Len(before) |-> before[i][k1]])
                      > args.max_seqs_per_sample
               /\ SeqSum([i \in 1..Len(before) |-> before[i][k2]])
                      \in 1..args.max_seqs_per_sample

\* C5: with a wanted lineage, once stage 1 has run the OTU ids and the
\* lineages are those of the rows whose lineage holds at least one of the
\* wanted terms, in their original order, and right after stage 1 the matrix
\* holds those same rows.
LineageSelection ==
    (AfterStage1 /\ ~args.wanted_lineage.none) =>
        LET rows == ExpectedRows(orig, args.wanted_lineage)
        IN  /\ frame.otu_ids = Restrict(orig.otu_ids, rows)
            /\ frame.lineages = Restrict(orig.lineages, rows)
            /\ frame.pc = "min_depth" =>
                   heap[frame.otu_table].data = Restrict(orig.counts.data, rows)

\* a call that kept a later row and dropped an earlier one
LineageWitness ==
    /\ Done
    /\ ~args.wanted_lineage.none
    /\ Len(orig.otu_ids) >= 2
    /\ result.otu_ids = <<orig.otu_ids[Len(orig.otu_ids)]>>

\* no sample of t is dropped or subsampled under policy a
PassThrough(t, a) ==
    \A j \in 1..Len(t.sample_ids) :
        /\ ExpectedColSum(t, a.wanted_lineage, j) >= a.min_seqs_per_sample
        /\ ExpectedColSum(t, a.wanted_lineage, j) <= a.max_seqs_per_sample

\* C8: when the policy drops and subsamples no sample, filtering the
\* returned table again with the same policy returns the same sample ids,
\* OTU ids, counts and lineages.
LineageIdempotence ==
    (Done /\ pass = "second" /\ PassThrough(first.given, args)) =>
        Table(heap, result) = first.table

\* a second call, after a first one that removed a row and kept another
IdempotenceWitness ==
    /\ Done
    /\ pass = "second"
    /\ PassThrough(first.given, args)
    /\ ~args.wanted_lineage.none
    /\ 0 < Len(result.otu_ids)
    /\ Len(result.otu_ids) < Len(first.given.otu_ids)
    /\ Len(result.sample_ids) > 0

\* lineage selection removes every row of a table that has rows
AllOtusRemoved ==
    /\ frame.fn = "filter_otus_by_lineage"
    /\ ~args.wanted_lineage.none
    /\ Len(orig.otu_ids) > 0
    /\ Len(orig.lineages) = Len(orig.otu_ids)
    /\ ExpectedRows(orig, args.wanted_lineage) = {}

\* C10 as claimed: when lineage selection removes every row, the returned
\* table has no OTU and no sample.
AllRemovedDropsEverySample ==
    (Done /\ AllOtusRemoved) =>
        /\ Len(result.otu_ids) = 0
        /\ Len(result.sample_ids) = 0

\* C10 as amended: when lineage selection removes every row the call goes on
\* to return; the returned table has no OTU and a matrix without rows, and
\* its samples are none when min_seqs_per_sample is at least 1 and all the
\* samples of the input when min_seqs_per_sample is 0 or less.
AllRemovedDropsSamplesBelowMin ==
    AllOtusRemoved =>
        /\ frame.pc # "done" => ENABLED NextFilter
        /\ Done =>
              /\ result.otu_ids = <<>>
              /\ NRows(heap[result.otu_table]) = 0
              /\ result.sample_ids =
                     IF args.min_seqs_per_sample >= 1 THEN <<>> ELSE orig.sample_ids
              /\ NCols(heap[result.otu_table]) = Len(result.sample_ids)

\* a returned table without rows that kept its samples
AllRemovedWitness ==
    /\ Done
    /\ AllOtusRemoved
    /\ Len(orig.sample_ids) > 0
    /\ result.sample_ids = orig.sample_ids

\* --------------------------------------------------------------- parse_otus

Tab == <<"\t">>
Semicolon == <<";">>
ConsensusLineage == Str("Consensus Lineage")

\* xs[1:]
AllButFirst(xs) == SubSeq(xs, 2, Len(xs))

\* xs[:-1]
AllButLast(xs) == SubSeq(xs, 1, Len(xs) - 1)

\* whether int(field) succeeds: one number, white space around it allowed
IsInt(field) ==
    /\ Len(Strip(field)) = 1
    /\ \E n \in 0..9 : ToString(n) = Strip(field)[1]

\* int(field)
IntOf(field) == CHOOSE n \in 0..9 : ToString(n) = Strip(field)[1]

\* array(rows) of a list of 1-d arrays: 2-d when there are rows and all are
\* of one length, else a 1-d array (empty, or of row objects)
ArrayOfRows(rows) ==
    IF rows # <<>> /\ \A i \in 1..Len(rows) : Len(rows[i]) = Len(rows[1])
    THEN [shape |-> <<Len(rows), Len(rows[1])>>, data |-> rows]
    ELSE [shape |-> <<Len(rows)>>, data |-> rows]

InParse == frame.fn = "parse_otus" /\ frame.pc = "loop"

\* the line the loop is about to read; frame.i counts the lines read
NextLine == args.lines[frame.i + 1]

\* i == 0: skip header line
SkipTitleLine ==
    /\ InParse
    /\ frame.i = 0 /\ frame.i < Len(args.lines)
    /\ frame' = [frame EXCEPT !.i = frame.i + 1]
    /\ UNCHANGED <<heap, args, result, orig, first, pass>>

\* i == 1: parse sample id line
ParseSampleIdLine ==
    /\ InParse
    /\ frame.i = 1 /\ frame.i < Len(args.lines)
    /\ LET sample_ids == AllButFirst(Split(Strip(NextLine), Tab))
       IN  IF Len(sample_ids) = 0
           THEN /\ result' = [kind |-> "raised", error |-> "RuntimeError"]
                /\ frame' = [frame EXCEPT !.pc = "raised"]
           ELSE /\ result' = result
                /\ IF sample_ids[Len(sample_ids)] = ConsensusLineage
                   THEN frame' = [frame EXCEPT !.i = frame.i + 1,
                                     !.bound = TRUE,
                                     !.has_consensus = TRUE,
                                     !.sample_ids = AllButLast(sample_ids)]
                   ELSE frame' = [frame EXCEPT !.i = frame.i + 1,
                                     !.bound = TRUE,
                                     !.has_consensus = FALSE,
                                     !.sample_ids = sample_ids]
    /\ UNCHANGED <<heap, args, orig, first, pass>>

\* else: parse each otu line
ParseOtuLine ==
    /\ InParse
    /\ frame.i >= 2 /\ frame.i < Len(args.lines)
    /\ LET fields == Split(NextLine, Tab)
           counts == IF frame.has_consensus
                     THEN AllButLast(AllButFirst(fields))
                     ELSE AllButFirst(fields)
       IN  IF \E k \in 1..Len(counts) : ~IsInt(counts[k])
           THEN /\ result' = [kind |-> "raised", error |-> "ValueError"]
                /\ frame' = [frame EXCEPT !.pc = "raised"]
           ELSE /\ result' = result
                /\ frame' = [frame EXCEPT
                       !.i = frame.i + 1,
                       !.otu_table = Append(frame.otu_table,
                           [k \in 1..Len(counts) |-> IntOf(counts[k])]),
                       !.otu_ids = Append(frame.otu_ids, Strip(fields[1])),
                       !.lineages =
                           IF frame.has_consensus
                           THEN Append(frame.lineages,
                                    LET segs == Split(fields[Len(fields)], Semicolon)
                                    IN  [k \in 1..Len(segs) |-> Strip(segs[k])])
                           ELSE frame.lineages]
    /\ UNCHANGED <<heap, args, orig, first, pass>>

\* the return; sample_ids is not bound when no sample id line was read
ReturnParsed ==
    /\ InParse
    /\ frame.i = Len(args.lines)
    /\ IF frame.bound
       THEN /\ result' = [kind |-> "returned",
                          sample_ids |-> frame.sample_ids,
                          otu_ids |-> frame.otu_ids,
                          otu_table |-> ArrayOfRows(frame.otu_table),
                          lineages |-> frame.lineages]
            /\ frame' = [frame EXCEPT !.pc = "done"]
       ELSE /\ result' = [kind |-> "raised", error |-> "UnboundLocalError"]
            /\ frame' = [frame EXCEPT !.pc = "raised"]
    /\ UNCHANGED <<heap, args, orig, first, pass>>

\* the files parse_otus is given
Newline == <<"\n">>

RECURSIVE JoinTab(_)
JoinTab(fields) ==
    IF Len(fields) = 0 THEN <<>>
    ELSE IF Len(fields) = 1 THEN fields[1]
    ELSE fields[1] \o Tab \o JoinTab(Tail(fields))

TitleLine == Str("#Full OTU Counts") \o Newline

\* the sample id line: the samples, then nothing, the lineage column or a stray tab
HeaderChoices ==
    {JoinTab(<<Str("#OTU ID")>> \o SubSeq(SampleNames, 1, s) \o tail) \o Newline :
        s \in 0..Len(SampleNames),
        tail \in {<<>>, <<ConsensusLineage>>, <<<<>>>>}}

LineageFieldChoices == {Root \o Semicolon \o Str(" ") \o Bacteria}

CountFields == {Str(ToString(n)) : n \in 0..MaxCount}

\* the fields of a data row after the OTU id
RowTails ==
    {counts \o lin :
        counts \in UNION {[1..k -> CountFields] : k \in 0..Len(SampleNames)},
        lin \in {<<>>} \cup {<<l>> : l \in LineageFieldChoices}}
    \cup {<<Str("x")>>}

InitParse ==
    \E n \in 0..MaxOtus :
    \E tails \in [1..n -> RowTails] :
    \E header \in HeaderChoices :
    \E given \in 0..2 :
        /\ args = [lines |->
                     SubSeq(<<TitleLine, header>>, 1, given) \o
                     (IF given = 2
                      THEN [i \in 1..n |-> JoinTab(<<OtuId(i)>> \o tails[i]) \o Newline]
                      ELSE <<>>)]
        /\ frame = [fn |-> "parse_otus", pc |-> "loop", i |-> 0,
                    otu_table |-> <<>>, otu_ids |-> <<>>, lineages |-> <<>>,
                    bound |-> FALSE, sample_ids |-> <<>>, has_consensus |-> FALSE]
        /\ heap = <<>>
        /\ result = NoResult
        /\ orig = NoResult
        /\ first = NoResult
        /\ pass = "first"

NextParse ==
    \/ SkipTitleLine
    \/ ParseSampleIdLine
    \/ ParseOtuLine
    \/ ReturnParsed

SpecParse == InitParse /\ [][NextParse]_vars

\* ---------------------------------------------- properties of the parsing

Returned == frame.fn = "parse_otus" /\ result.kind = "returned"

\* C6: parse_otus returns no table whose sample id line yields no sample
\* column, a line holding only 'Consensus Lineage' after the OTU id included.
NoTableWithoutSamples ==
    Returned => Len(result.sample_ids) > 0

\* C7: parse_otus returns no table in which a data row has a number of
\* counts other than the number of sample ids.
NoRaggedTable ==
    Returned =>
        \A i \in 1..Len(result.otu_table.data) :
            Len(result.otu_table.data[i]) = Len(result.sample_ids)

\* ----------------------------------------------------------- make_envs_dict

EmptyDict == <<>>

\* d[key] = value
DictSet(d, key, value) ==
    [k \in DOMAIN d \cup {key} |-> IF k = key THEN value ELSE d[k]]

\* dict(zip(keys, values)): a later pair replaces an earlier one of the same key
RECURSIVE DictOfZipFrom(_, _, _, _)
DictOfZipFrom(keys, values, i, d) ==
    IF i > Len(keys) \/ i > Len(values) THEN d
    ELSE DictOfZipFrom(keys, values, i + 1, DictSet(d, keys[i], values[i]))

DictOfZip(keys, values) == DictOfZipFrom(keys, values, 1, EmptyDict)

\* a plausible slip: the zero counts are not removed
NonzerosOfTaxonAll(taxon) == [k \in 1..Len(taxon) |-> k]

\* taxon.nonzero()
NonzerosOfTaxon(taxon) == Nonzero([k \in 1..Len(taxon) |-> taxon[k] # 0])

InEnvs(pc) == frame.fn = "make_envs_dict" /\ frame.pc = pc

\* the shape of the matrix against the numbers of names
CheckShape ==
    /\ InEnvs("check")
    /\ LET shape == heap[args.abund_mtx].shape
       IN  IF shape # <<Len(args.sample_names), Len(args.taxon_names)>>
           THEN /\ result' = [kind |-> "raised", error |-> "ValueError"]
                /\ frame' = [frame EXCEPT !.pc = "raised"]
           ELSE /\ result' = result
                /\ frame' = [frame EXCEPT !.pc = "loop"]
    /\ UNCHANGED <<heap, args, orig, first, pass>>

\* one turn of the loop over the columns of the matrix; frame.i counts the turns
AddTaxon ==
    /\ InEnvs("loop")
    /\ frame.i < NCols(heap[args.abund_mtx])
    /\ LET i == frame.i + 1
           taxon == Column(heap[args.abund_mtx], i)
           nonzeros == NonzerosOfTaxon(taxon)
       IN  frame' = [frame EXCEPT
               !.i = i,
               !.envs_dict = DictSet(frame.envs_dict, args.taxon_names[i],
                                 DictOfZip(GetItems(args.sample_names, nonzeros),
                                           GetItems(taxon, nonzeros)))]
    /\ UNCHANGED <<heap, args, result, orig, first, pass>>

ReturnEnvs ==
    /\ InEnvs("loop")
    /\ frame.i = NCols(heap[args.abund_mtx])
    /\ result' = [kind |-> "returned", envs_dict |-> frame.envs_dict]
    /\ frame' = [frame EXCEPT !.pc = "done"]
    /\ UNCHANGED <<heap, args, orig, first, pass>>

\* the matrices and names make_envs_dict is called with
InitEnvs ==
    \E s \in 0..Len(SampleNames), t \in 0..MaxOtus :
    \E rows \in [1..s -> [1..t -> 0..MaxCount]] :
    \E ns \in 0..Len(SampleNames), nt \in 0..MaxOtus :
        /\ heap = <<Array(s, t, rows)>>
        /\ args = [abund_mtx |-> 1,
                   sample_names |-> SubSeq(SampleNames, 1, ns),
                   taxon_names |-> [i \in 1..nt |-> OtuId(i)]]
        /\ frame = [fn |-> "make_envs_dict", pc |-> "check", i |-> 0,
                    envs_dict |-> EmptyDict]
        /\ result = NoResult
        /\ orig = NoResult
        /\ first = NoResult
        /\ pass = "first"

NextEnvs ==
    \/ CheckShape
    \/ AddTaxon
    \/ ReturnEnvs

SpecEnvs == InitEnvs /\ [][NextEnvs]_vars

\* ------------------------------------------- properties of the envs dict

\* the count the mapping d stands for at a taxon and a sample
Expand(d, taxon, sample) ==
    IF taxon \in DOMAIN d /\ sample \in DOMAIN d[taxon]
    THEN d[taxon][sample]
    ELSE 0

\* C9: the mapping make_envs_dict returns has one entry per taxon, holding
\* the samples of non-zero count with their counts and no other sample, and
\* read with 0 for what is missing it gives back every cell of the matrix.
SparseRoundTrip ==
    (frame.fn = "make_envs_dict" /\ result.kind = "returned") =>
        LET m == heap[args.abund_mtx]
            d == result.envs_dict
        IN  /\ DOMAIN d = Range(args.taxon_names)
            /\ \A i \in 1..Len(args.taxon_names) :
                   DOMAIN d[args.taxon_names[i]] =
                       {args.sample_names[j] : j \in {k \in 1..NRows(m) : m.data[k][i] # 0}}
            /\ \A j \in 1..NRows(m), i \in 1..NCols(m) :
                   Expand(d, args.taxon_names[i], args.sample_names[j]) = m.data[j][i]

\* a mapping returned for a matrix of two samples and two taxa that holds
\* a zero and a count that is not zero
SparseWitness ==
    /\ frame.fn = "make_envs_dict" /\ result.kind = "returned"
    /\ LET m == heap[args.abund_mtx]
       IN  /\ NRows(m) >= 2 /\ NCols(m) >= 2
           /\ \E j \in 1..NRows(m), i \in 1..NCols(m) : m.data[j][i] = 0
           /\ \E j \in 1..NRows(m), i \in 1..NCols(m) : m.data[j][i] # 0

====
